---- MODULE Spec2Model ----
(***************************************************************************)
(* bfs_shortest_paths.py: all shortest 4-neighbour paths between two cells *)
(* of a 2D board with roadblocks.  One call of shortest_paths is modelled  *)
(* as a state machine whose program counter walks the function body; the   *)
(* helpers of the module are operators.                                    *)
(*                                                                         *)
(* A Python point (r, c) is the tuple <<r, c>>: point[0] is p[1] and       *)
(* point[1] is p[2].  A Python list is a sequence, so board[r][c] is       *)
(* board[r + 1][c + 1].                                                    *)
(***************************************************************************)
EXTENDS Integers, Sequences, FiniteSets, TLC

\* Largest number of cells (rows * columns) of the boards explored.
MaxCells == 6

\* Cell values of the explored boards, and Python's None.
Values == {"0", "1"}
None == "None"
\* The roadblock argument: a cell value, or the default None.
Roadblocks == {"1", None}

VARIABLES
    board,       \* argument: list of rows
    start,       \* argument: point
    end,         \* argument: point
    roadblock,   \* argument: value marking a roadblock
    pc,          \* position in shortest_paths
    steps_map,   \* local: 2D list of distances, -1 = never been here
    from_map,    \* local: 2D list of None | list of points
    queue,       \* local: deque, index 1 is the left end
    cur_point,   \* local: the point popped last
    dir,         \* local: index into directions of the for loop
    result,      \* the returned list of paths
    pushed,      \* history: every point put into the deque, in order
    corrective   \* history: the branch of line 129-130 was taken

vars == <<board, start, end, roadblock, pc, steps_map, from_map, queue,
          cur_point, dir, result, pushed, corrective>>

----------------------------------------------------------------------------
\* Helpers of the module

directions == << <<1, 0>>, <<-1, 0>>, <<0, 1>>, <<0, -1>> >>

is_on_board(b, point) ==
    /\ 0 <= point[1] /\ point[1] < Len(b)
    /\ 0 <= point[2] /\ point[2] < Len(b[1])

move(point, direction) == <<point[1] + direction[1], point[2] + direction[2]>>

create_board_like(b, default_value) ==
    [r \in 1..Len(b) |-> [c \in 1..Len(b[1]) |-> default_value]]

\* vset / vget on a point that is on the board (the callers below establish
\* it; the ValueError of an off-board point is raised by the calling action).
vset(b, point, var) == [b EXCEPT ![point[1] + 1][point[2] + 1] = var]

vget(b, point) == b[point[1] + 1][point[2] + 1]

\* An entry of from_map: None, or a list of points.
NoList == [isNone |-> TRUE, list |-> <<>>]
AList(l) == [isNone |-> FALSE, list |-> l]

\* vget(from_map, point, []): an entry that is None is first set to [].
vget_default_map(fm, point) ==
    IF vget(fm, point).isNone THEN vset(fm, point, AList(<<>>)) ELSE fm

vget_default(fm, point) == vget(vget_default_map(fm, point), point).list

\* vget(from_map, point, []).append(cur)
append_from_replace(fm, point, cur) == vset(fm, point, AList(<<cur>>))

append_from(fm, point, cur) ==
    vset(fm, point, AList(Append(vget_default(fm, point), cur)))

\* line 103: the degenerate board
is_empty_rows_only(b) == Len(b) = 0

is_empty_board(b) == IF Len(b) = 0 THEN TRUE ELSE Len(b[1]) = 0

\* line 106: both end points are on the board
both_on_board_start_only(b, s, e) == is_on_board(b, s)

both_on_board(b, s, e) == is_on_board(b, s) /\ is_on_board(b, e)

\* line 120: the neighbour is skipped
is_skipped_bounds_only(b, new_point, rb) == ~is_on_board(b, new_point)

is_skipped(b, new_point, rb) ==
    \/ ~is_on_board(b, new_point)
    \/ vget(b, new_point) = rb

\* line 123: the distance given to a neighbour reached for the first time
new_steps_same(sm, cur) == vget(sm, cur)

new_steps_two(sm, cur) == vget(sm, cur) + 2

new_steps(sm, cur) == vget(sm, cur) + 1

\* line 125: the neighbour is put into the deque
is_enqueued_always(new_point, e) == TRUE

is_enqueued(new_point, e) == new_point # e

\* deque.pop(): the right end; deque.appendleft(x): the left end
deque_pop(q) == [item |-> q[Len(q)], rest |-> SubSeq(q, 1, Len(q) - 1)]

deque_appendleft(q, x) == <<x>> \o q

Reverse(s) == [i \in 1..Len(s) |-> s[Len(s) + 1 - i]]

\* trace_helper: the traces collected in results, in the order of the appends.
\* The for loop over the predecessors of the last point is trace_loop.
RECURSIVE trace_helper(_, _, _)
RECURSIVE trace_loop(_, _, _, _)
trace_helper(fm, s, cur_trace_list) ==
    IF cur_trace_list[Len(cur_trace_list)] = s
    THEN <<cur_trace_list>>
    ELSE trace_loop(fm, s, cur_trace_list, 1)

trace_loop(fm, s, cur_trace_list, i) ==
    LET preds == vget_default(fm, cur_trace_list[Len(cur_trace_list)])
    IN  IF i > Len(preds)
        THEN <<>>
        ELSE trace_helper(fm, s, Append(cur_trace_list, preds[i]))
                 \o trace_loop(fm, s, cur_trace_list, i + 1)

trace_no_root(fm, s, e) ==
    LET results == trace_loop(fm, s, <<e>>, 1)
    IN  [i \in 1..Len(results) |-> Reverse(results[i])]

trace(fm, s, e) ==
    LET results == trace_helper(fm, s, <<e>>)
    IN  [i \in 1..Len(results) |-> Reverse(results[i])]

----------------------------------------------------------------------------
\* Inputs

Shapes == {sh \in (0..MaxCells) \X (0..MaxCells) :
              /\ sh[1] * sh[2] <= MaxCells
              /\ (sh[1] = 0 => sh[2] = 0)}

Boards == UNION {[1..sh[1] -> [1..sh[2] -> Values]] : sh \in Shapes}

Rows(b) == Len(b)
Cols(b) == IF Len(b) = 0 THEN 0 ELSE Len(b[1])
Cells(b) == (0..Rows(b) - 1) \X (0..Cols(b) - 1)

\* The points tried as start and end: every cell, and one point beyond each
\* of the four borders.
Points(b) == Cells(b) \cup {<<-1, 0>>, <<0, -1>>, <<Rows(b), 0>>, <<0, Cols(b)>>}

NoPoint == <<-1, -1>>

Init ==
    /\ board \in Boards
    /\ roadblock \in Roadblocks
    /\ start \in Points(board)
    /\ end \in Points(board)
    /\ pc = "entry"
    /\ steps_map = <<>>
    /\ from_map = <<>>
    /\ queue = <<>>
    /\ cur_point = NoPoint
    /\ dir = 0
    /\ result = <<>>
    /\ pushed = <<>>
    /\ corrective = FALSE

----------------------------------------------------------------------------
\* shortest_paths

\* lines 103-104
ReturnEmpty ==
    /\ pc = "entry"
    /\ is_empty_board(board)
    /\ pc' = "returned"
    /\ result' = <<>>
    /\ UNCHANGED <<board, start, end, roadblock, steps_map, from_map, queue,
                   cur_point, dir, pushed, corrective>>

\* lines 103, 106-107
CheckPoints ==
    /\ pc = "entry"
    /\ ~is_empty_board(board)
    /\ pc' = IF both_on_board(board, start, end) THEN "setup" ELSE "raised"
    /\ UNCHANGED <<board, start, end, roadblock, steps_map, from_map, queue,
                   cur_point, dir, result, pushed, corrective>>

\* lines 109-115
Setup ==
    /\ pc = "setup"
    /\ IF is_on_board(board, start)
       THEN /\ steps_map' = vset(create_board_like(board, -1), start, 0)
            /\ from_map' = vset(create_board_like(board, NoList), start, AList(<<>>))
            /\ queue' = <<start>>
            /\ pushed' = <<start>>
            /\ pc' = "while"
       ELSE /\ steps_map' = create_board_like(board, -1)
            /\ from_map' = create_board_like(board, NoList)
            /\ pc' = "raised"
            /\ UNCHANGED <<queue, pushed>>
    /\ UNCHANGED <<board, start, end, roadblock, cur_point, dir, result, corrective>>

\* lines 116-117
Pop ==
    /\ pc = "while"
    /\ queue # <<>>
    /\ cur_point' = deque_pop(queue).item
    /\ queue' = deque_pop(queue).rest
    /\ dir' = 1
    /\ pc' = "for"
    /\ UNCHANGED <<board, start, end, roadblock, steps_map, from_map, result,
                   pushed, corrective>>

\* lines 118-130, one direction
Visit ==
    /\ pc = "for"
    /\ LET new_point == move(cur_point, directions[dir])
       IN  IF is_skipped(board, new_point, roadblock)
           THEN UNCHANGED <<steps_map, from_map, queue, pushed, corrective>>
           ELSE IF vget(steps_map, new_point) < 0
           THEN /\ steps_map' = vset(steps_map, new_point, new_steps(steps_map, cur_point))
                /\ from_map' = append_from(from_map, new_point, cur_point)
                /\ IF is_enqueued(new_point, end)
                   THEN /\ queue' = deque_appendleft(queue, new_point)
                        /\ pushed' = Append(pushed, new_point)
                   ELSE UNCHANGED <<queue, pushed>>
                /\ UNCHANGED corrective
           ELSE IF vget(steps_map, new_point) = vget(steps_map, cur_point) + 1
           THEN /\ from_map' = append_from(from_map, new_point, cur_point)
                /\ UNCHANGED <<steps_map, queue, pushed, corrective>>
           ELSE IF vget(steps_map, new_point) > vget(steps_map, cur_point) + 1
           THEN /\ from_map' = vset(from_map, new_point, AList(<<cur_point>>))
                /\ corrective' = TRUE
                /\ UNCHANGED <<steps_map, queue, pushed>>
           ELSE UNCHANGED <<steps_map, from_map, queue, pushed, corrective>>
    /\ IF dir = Len(directions)
       THEN pc' = "while" /\ dir' = 0
       ELSE pc' = "for" /\ dir' = dir + 1
    /\ UNCHANGED <<board, start, end, roadblock, cur_point, result>>

\* lines 116, 131 and _trace
Return ==
    /\ pc = "while"
    /\ queue = <<>>
    /\ IF end # start /\ ~is_on_board(from_map, end)
       THEN /\ pc' = "raised"
            /\ UNCHANGED <<from_map, result>>
       ELSE /\ pc' = "returned"
            /\ result' = trace(from_map, start, end)
            /\ from_map' = IF end # start
                           THEN vget_default_map(from_map, end)
                           ELSE from_map
    /\ UNCHANGED <<board, start, end, roadblock, steps_map, queue, cur_point,
                   dir, pushed, corrective>>

Next ==
    \/ ReturnEmpty
    \/ CheckPoints
    \/ Setup
    \/ Pop
    \/ Visit
    \/ Return

Spec == Init /\ [][Next]_vars

----------------------------------------------------------------------------
\* Reference notions the properties are stated with.  They are defined on
\* the arguments alone, not through the helpers of the module.

Abs(x) == IF x < 0 THEN -x ELSE x

NonEmptyBoard == Len(board) > 0 /\ Len(board[1]) > 0

InBounds(p) == p \in Cells(board)

\* The start and end arguments pass the check of line 106.
ValidCall == NonEmptyBoard /\ InBounds(start) /\ InBounds(end)

IsRoadblock(p) == board[p[1] + 1][p[2] + 1] = roadblock

\* The cells one down/up/right/left move away from p that are no roadblock.
FreeNeighbours(p) ==
    {q \in Cells(board) :
        /\ Abs(q[1] - p[1]) + Abs(q[2] - p[2]) = 1
        /\ ~IsRoadblock(q)}

\* Breadth-first levels on sets: the number of moves from the cells of
\* frontier (at distance k) to target, -1 if there is no route.  The cells
\* of sinks are entered but never left.
RECURSIVE LevelDist(_, _, _, _, _)
LevelDist(frontier, seen, k, target, sinks) ==
    IF target \in frontier THEN k
    ELSE IF frontier = {} THEN -1
    ELSE LET nxt == UNION {FreeNeighbours(c) : c \in frontier \ sinks} \ seen
         IN  LevelDist(nxt, seen \cup nxt, k + 1, target, sinks)

\* Minimum number of moves from start to p through cells that are no roadblock.
MinSteps(p) == LevelDist({start}, {start}, 0, p, {})

\* The same, over the routes that do not leave end again (end = start is left
\* as the first move).
MinStepsNotThroughEnd(p) ==
    LevelDist({start}, {start}, 0, p, IF end = start THEN {} ELSE {end})

\* The walks from start over cells that are no roadblock, grown one move at a
\* time until some of them end at end: the set of all shortest paths.  A walk
\* that returns to a cell is never a shortest one and is dropped.
RECURSIVE ShortestWalks(_)
ShortestWalks(walks) ==
    LET hits == {w \in walks : w[Len(w)] = end}
    IN  IF hits # {} THEN hits
        ELSE IF walks = {} THEN {}
        ELSE ShortestWalks(UNION {
                 {Append(w, q) : q \in {n \in FreeNeighbours(w[Len(w)]) :
                                           \A i \in 1..Len(w) : w[i] # n}}
                 : w \in walks})

AllShortestPaths == ShortestWalks({<<start>>})

ResultSet == {result[i] : i \in 1..Len(result)}

MapsCreated == steps_map # <<>>

Finished == pc \in {"returned", "raised"}

----------------------------------------------------------------------------
\* Properties

\* C1: on a non-empty board with start and end on it and start no roadblock,
\* the returned list holds every shortest 4-neighbour path from start to end
\* that avoids the roadblocks, each exactly once, and nothing else.
C1_AllShortestPathsOnce ==
    (pc = "returned" /\ ValidCall /\ ~IsRoadblock(start)) =>
        /\ ResultSet = AllShortestPaths
        /\ Cardinality(ResultSet) = Len(result)

C1_Witness ==
    /\ pc = "returned" /\ ValidCall /\ ~IsRoadblock(start)
    /\ Len(result) >= 2
    /\ \E p \in Cells(board) : IsRoadblock(p)

\* C2: no returned path holds a cell whose board value is the roadblock
\* value, also when start or end is such a cell.
C2_NoRoadblockOnPaths ==
    (pc = "returned" /\ ValidCall) =>
        \A i \in 1..Len(result) : \A j \in 1..Len(result[i]) :
            ~IsRoadblock(result[i][j])

\* C3: with start = end on a non-empty board the call returns exactly the one
\* path [start], whatever the board holds.
C3_StartIsEnd ==
    (Finished /\ ValidCall /\ start = end) =>
        /\ pc = "returned"
        /\ result = << <<start>> >>

C3_Witness ==
    /\ pc = "returned" /\ ValidCall /\ start = end
    /\ IsRoadblock(start)
    /\ Cardinality(Cells(board)) > 1
    /\ result = << <<start>> >>

\* C4: with start # end and no route from start to end over cells that are
\* no roadblock, the call returns the empty list and raises nothing.
C4_UnreachableIsEmpty ==
    (Finished /\ ValidCall /\ start # end /\ MinSteps(end) = -1) =>
        /\ pc = "returned"
        /\ result = <<>>

C4_Witness ==
    /\ pc = "returned" /\ ValidCall /\ start # end
    /\ MinSteps(end) = -1
    /\ ~IsRoadblock(end) /\ ~IsRoadblock(start)
    /\ Len(pushed) >= 2
    /\ result = <<>>

\* C5: on a non-empty board a start or end off the board makes the call raise
\* before anything else happens: no map is created, nothing is put into or
\* popped from the deque, nothing is returned.
C5_OutOfBoardRaisesFirst ==
    (NonEmptyBoard /\ ~(InBounds(start) /\ InBounds(end)) /\ pc # "entry") =>
        /\ pc = "raised"
        /\ steps_map = <<>> /\ from_map = <<>>
        /\ queue = <<>> /\ pushed = <<>> /\ cur_point = NoPoint
        /\ result = <<>>

C5_Witness ==
    /\ pc = "raised" /\ NonEmptyBoard
    /\ InBounds(start) /\ end[2] < 0

\* C6: a board without rows or without columns returns the empty list and
\* never raises, whatever start and end are.
C6_EmptyBoardReturnsEmpty ==
    (~NonEmptyBoard /\ pc # "entry") =>
        /\ pc = "returned"
        /\ result = <<>>
        /\ steps_map = <<>>

C6_Witness ==
    /\ pc = "returned"
    /\ Len(board) > 0 /\ Len(board[1]) = 0
    /\ start = <<-1, 0>>

\* C7: in every state of the traversal the distance of start is 0 and every
\* point in the predecessor list of a cell has a distance one less than the
\* cell's.
C7_PredecessorsOneLess ==
    MapsCreated =>
        /\ vget(steps_map, start) = 0
        /\ \A p \in Cells(board) :
              \A i \in 1..Len(vget(from_map, p).list) :
                  vget(steps_map, vget(from_map, p).list[i]) = vget(steps_map, p) - 1

C7_Witness ==
    /\ pc = "for"
    /\ \E p \in Cells(board) : Len(vget(from_map, p).list) = 2

\* C8: the corrective branch is never taken: no popped cell has a neighbour
\* on the board, no roadblock, whose distance exceeds the cell's by more
\* than one.
C8_NoCorrectiveBranch ==
    /\ ~corrective
    /\ pc = "for" =>
          \A n \in FreeNeighbours(cur_point) :
              vget(steps_map, n) <= vget(steps_map, cur_point) + 1

C8_Witness ==
    /\ pc = "for"
    /\ LET n == move(cur_point, directions[dir])
       IN  /\ n \in FreeNeighbours(cur_point)
           /\ vget(steps_map, n) = vget(steps_map, cur_point) + 1
           /\ vget(from_map, n).list # <<>>
           /\ vget(from_map, n).list[1] # cur_point

\* C9 as stated: when the traversal has ended every reached cell holds the
\* minimum number of moves from start over cells that are no roadblock.
C9_DistancesMinimal ==
    (pc = "returned" /\ MapsCreated /\ ~IsRoadblock(start)) =>
        \A p \in Cells(board) :
            vget(steps_map, p) # -1 => vget(steps_map, p) = MinSteps(p)

\* C9 amended: when the traversal has ended every reached cell holds the
\* minimum number of moves from start over the routes whose cells after start
\* are no roadblock and that do not pass through end on the way.
C9_DistancesMinimalNotThroughEnd ==
    (pc = "returned" /\ MapsCreated) =>
        \A p \in Cells(board) :
            vget(steps_map, p) # -1 =>
                vget(steps_map, p) = MinStepsNotThroughEnd(p)

C9_Witness ==
    /\ pc = "returned" /\ MapsCreated /\ ~IsRoadblock(start)
    /\ \E p \in Cells(board) :
          /\ vget(steps_map, p) # -1
          /\ MinSteps(p) < MinStepsNotThroughEnd(p)

\* The number of steps the call can still take is bounded by Variant: five
\* (the pop and the four directions) for every cell in the deque or not yet
\* put into it, plus what is left of the current loop body.
Variant ==
    LET perCell == Len(directions) + 1
        waiting == Len(queue) + Cardinality(Cells(board)) - Len(pushed)
    IN  CASE pc = "entry"    -> perCell * Cardinality(Cells(board)) + 3
          [] pc = "setup"    -> perCell * Cardinality(Cells(board)) + 2
          [] pc = "while"    -> perCell * waiting + 1
          [] pc = "for"      -> perCell * waiting + (perCell - dir) + 1
          [] OTHER           -> 0

\* The guard of one of the actions of Next holds: ReturnEmpty or CheckPoints
\* at "entry", Setup at "setup", Pop or Return at "while", Visit at "for".
StepPossible ==
    \/ pc \in {"entry", "setup", "while"}
    \/ pc = "for" /\ dir \in 1..Len(directions)

\* C10: the traversal ends, with an empty deque: every step of the call lowers
\* a bound on the steps left, and a step is possible until the call has
\* finished.  A cell is put into the deque only in the step that changes its
\* distance from -1 to a value, so no cell is put into it twice, and end is
\* never put into it unless it is the start the deque is seeded with.
C10_Terminates ==
    /\ [][Variant' < Variant]_vars
    /\ [](Variant >= 0 /\ (~Finished => StepPossible))
    /\ [](pc = "returned" => queue = <<>>)
    /\ [](\A i, j \in 1..Len(pushed) : pushed[i] = pushed[j] => i = j)
    /\ [](\A i \in 2..Len(pushed) : pushed[i] # end)
    /\ [][(pc = "for" /\ Len(pushed') > Len(pushed)) =>
             /\ vget(steps_map, pushed'[Len(pushed')]) = -1
             /\ vget(steps_map', pushed'[Len(pushed')]) >= 0
             /\ queue' = <<pushed'[Len(pushed')]>> \o queue]_vars

C10_Witness ==
    /\ pc = "returned" /\ MapsCreated
    /\ end # start
    /\ vget(steps_map, end) > 0
    /\ Len(pushed) >= 5

====
